---- MODULE Spec2Model ----
(***************************************************************************)
(* A model of the lehungry robot CLI (src/cli.py) and of its dataset       *)
(* augmentation script (src/data_augmentation.py).                         *)
(*                                                                         *)
(* Text.  A Python str is modelled as a sequence of symbols.  A symbol is  *)
(* either one special character (the double quote, the backslash, the line *)
(* feed, ...) or a run of ordinary characters that the code never looks    *)
(* into ("leader_port", "/dev/ttyACM").  The empty str is << >>.           *)
(*                                                                         *)
(* Dicts.  A Python dict is modelled as a sequence of <<key, value>> pairs *)
(* with distinct keys, in insertion order.                                 *)
(*                                                                         *)
(* Optional values.  Python's None is the record None, any other value v   *)
(* is Some(v).                                                             *)
(*                                                                         *)
(* Column names of a dataset batch and the messages printed are compared   *)
(* whole by the code and are plain strings here.  An action is the code    *)
(* that runs between two blocking calls (input(), subprocess.run, a remote *)
(* request); what the terminal, the operating system and the remote        *)
(* services deliver is chosen with \E.                                     *)
(***************************************************************************)
EXTENDS Integers, Sequences, FiniteSets

VARIABLES
    \* ---- src/cli.py ----
    config,             \* main_menu's dict `config` / save_config's argument
    configFile,         \* the file config.json
    envFile,            \* the file .env, as the sequence of lines written
    loaded,             \* what the last load_config() call returned
    saves,              \* number of save_config calls made (config store runs)
    earlierKeys,        \* history: the keys the earlier save_config calls wrote
    pc,                 \* where the running script stands
    stdin,              \* what the last input() call received
    out,                \* the last message the operations printed
    locals,             \* the locals of the operation in progress
    cmd,                \* the argv of the operation's subprocess.run call
    result,             \* how that call went
    tag_call,           \* the operation's hub_api.create_tag call
    \* ---- src/data_augmentation.py ----
    batch,              \* augment_batch's argument
    AUGMENTATION_CACHE, \* the global cache augment_batch reads
    new_data,           \* what augment_batch returned
    mapping,            \* review_augmentations' argument
    cursor,             \* the item of mapping.items() under review
    variations,         \* the variations generated last
    cache               \* review_augmentations' dict `cache`

storeVars == <<loaded, saves, earlierKeys>>

cliVars == <<stdin, out, locals, cmd, result, tag_call>>

batchVars == <<batch, AUGMENTATION_CACHE, new_data>>

reviewVars == <<mapping, cursor, variations, cache>>

vars == <<config, configFile, envFile, pc, storeVars, cliVars, batchVars, reviewVars>>

\* The values of the variables a run does not use.
StoreIdle == loaded = [none |-> TRUE] /\ saves = 0 /\ earlierKeys = {}

BatchIdle == batch = << >> /\ AUGMENTATION_CACHE = << >> /\ new_data = << >>

ReviewIdle == mapping = << >> /\ cursor = 1 /\ variations = << >> /\ cache = << >>

CliIdle ==
    /\ stdin = [line |-> << >>]
    /\ out = ""
    /\ locals = << >>
    /\ cmd = [none |-> TRUE]
    /\ result = "none"
    /\ tag_call = [none |-> TRUE]

\* ------------------------------------------------------------------------
\* Bounds of the model
\* ------------------------------------------------------------------------

\* How many save_config calls a config-store run makes.
MaxSaves == 2

\* How many serial devices the operating system may list.
NumPorts == 3

\* How many rows a batch has at most.
MaxRows == 2

\* How many lines a reply of the completion service has at most.
MaxLines == 4

\* How many tasks a task mapping has at most.
MaxTasks == 2

\* ------------------------------------------------------------------------
\* Optional values, dicts
\* ------------------------------------------------------------------------

None == [none |-> TRUE]

Some(v) == [val |-> v]

\* Python truthiness of an optional str: None and "" are falsy.
Truthy(o) == o # None /\ o.val # << >>

EmptyDict == << >>

DictKeys(d) == {d[i][1] : i \in 1..Len(d)}

DictHas(d, k) == \E i \in 1..Len(d) : d[i][1] = k

\* d.get(k): None when the key is missing.
DictGet(d, k) ==
    IF DictHas(d, k)
    THEN Some(d[CHOOSE i \in 1..Len(d) : d[i][1] = k][2])
    ELSE None

\* d[k] = v: an existing key keeps its place, a new key goes last.
DictSet(d, k, v) ==
    IF DictHas(d, k)
    THEN [i \in 1..Len(d) |-> IF d[i][1] = k THEN <<k, v>> ELSE d[i]]
    ELSE Append(d, <<k, v>>)

\* ------------------------------------------------------------------------
\* Files
\* ------------------------------------------------------------------------

NoFile == [exists |-> FALSE]

File(content) == [exists |-> TRUE, content |-> content]

\* ------------------------------------------------------------------------
\* json.dump(config, f, indent=4) and json.load(f), for dicts of str to str
\* ------------------------------------------------------------------------

Quote == "\""

Backslash == "\\"

LineFeed == "\n"

Indent == "    "

JsonWhitespace == {" ", LineFeed, Indent}

\* An encoder that forgets to escape.
JsonEscapeUnescaped(s) == s

\* The body of a JSON string literal: the encoder escapes the double quote,
\* the backslash and the control characters.
RECURSIVE JsonEscape(_)
JsonEscape(s) ==
    IF s = << >> THEN << >>
    ELSE LET c == Head(s) IN
         (IF c = Quote THEN <<Backslash, Quote>>
          ELSE IF c = Backslash THEN <<Backslash, Backslash>>
          ELSE IF c = LineFeed THEN <<Backslash, "n">>
          ELSE <<c>>) \o JsonEscape(Tail(s))

JsonString(s) == <<Quote>> \o JsonEscape(s) \o <<Quote>>

\* One member line of the indented object: `    "key": "value"`.
JsonMember(kv) == <<Indent>> \o JsonString(kv[1]) \o <<":", " ">> \o JsonString(kv[2])

RECURSIVE JsonMembers(_)
JsonMembers(d) ==
    IF Len(d) = 1 THEN JsonMember(d[1])
    ELSE JsonMember(d[1]) \o <<",", LineFeed>> \o JsonMembers(Tail(d))

\* json.dump(d, f, indent=4): "{}" for the empty dict, else one member a line.
JsonDump(d) ==
    IF d = EmptyDict THEN <<"{", "}">>
    ELSE <<"{", LineFeed>> \o JsonMembers(d) \o <<LineFeed, "}">>

ParseFail == [ok |-> FALSE, val |-> << >>, next |-> 0]

RECURSIVE SkipWs(_, _)
SkipWs(t, i) ==
    IF i <= Len(t) /\ t[i] \in JsonWhitespace THEN SkipWs(t, i + 1) ELSE i

\* Scans a string literal from the symbol after its opening quote.
RECURSIVE ScanString(_, _, _)
ScanString(t, i, acc) ==
    IF i > Len(t) THEN ParseFail
    ELSE IF t[i] = Quote THEN [ok |-> TRUE, val |-> acc, next |-> i + 1]
    ELSE IF t[i] = Backslash THEN
        IF i + 1 > Len(t) THEN ParseFail
        ELSE IF t[i + 1] \in {Quote, Backslash}
             THEN ScanString(t, i + 2, Append(acc, t[i + 1]))
        ELSE IF t[i + 1] = "n" THEN ScanString(t, i + 2, Append(acc, LineFeed))
        ELSE ParseFail
    ELSE IF t[i] = LineFeed THEN ParseFail
    ELSE ScanString(t, i + 1, Append(acc, t[i]))

ParseString(t, i) ==
    IF i <= Len(t) /\ t[i] = Quote THEN ScanString(t, i + 1, << >>) ELSE ParseFail

\* Parses `"key": "value"` members from position i up to the closing brace;
\* a repeated key keeps its last value, as a Python dict does.
RECURSIVE ParseMembers(_, _, _)
ParseMembers(t, i, acc) ==
    LET k == ParseString(t, SkipWs(t, i)) IN
    IF ~k.ok THEN ParseFail
    ELSE LET c == SkipWs(t, k.next) IN
    IF ~(c <= Len(t) /\ t[c] = ":") THEN ParseFail
    ELSE LET v == ParseString(t, SkipWs(t, c + 1)) IN
    IF ~v.ok THEN ParseFail
    ELSE LET e == SkipWs(t, v.next)
             d == DictSet(acc, k.val, v.val) IN
    IF e > Len(t) THEN ParseFail
    ELSE IF t[e] = "," THEN ParseMembers(t, e + 1, d)
    ELSE IF t[e] = "}" THEN [ok |-> TRUE, val |-> d, next |-> e + 1]
    ELSE ParseFail

\* json.load for a document that is one object of str members; anything
\* else is a decoding error here (ok = FALSE).
JsonLoad(t) ==
    LET b == SkipWs(t, 1) IN
    IF ~(b <= Len(t) /\ t[b] = "{") THEN ParseFail
    ELSE LET m == SkipWs(t, b + 1)
             r == IF m <= Len(t) /\ t[m] = "}"
                  THEN [ok |-> TRUE, val |-> EmptyDict, next |-> m + 1]
                  ELSE ParseMembers(t, b + 1, EmptyDict) IN
    IF r.ok /\ SkipWs(t, r.next) > Len(t) THEN r ELSE ParseFail

\* ------------------------------------------------------------------------
\* The config store: load_config and save_config
\* ------------------------------------------------------------------------

\* load_config(): {} when config.json is missing or does not decode.
load_config(file) ==
    IF ~file.exists THEN EmptyDict
    ELSE LET r == JsonLoad(file.content) IN
         IF r.ok THEN r.val ELSE EmptyDict

\* str.upper(), symbol by symbol, on the symbols the model's keys use.
UpperSymbol(c) ==
    CASE c = "leader_port" -> "LEADER_PORT"
      [] c = "follower_port" -> "FOLLOWER_PORT"
      [] c = "robot_cameras" -> "ROBOT_CAMERAS"
      [] OTHER -> c

Upper(s) == [i \in 1..Len(s) |-> UpperSymbol(s[i])]

\* f.write(f'{name}="{value}"\n'): the value is written as it is.
EnvLine(name, value) == name \o <<"=", Quote>> \o value \o <<Quote, LineFeed>>

\* A writer that forgets the generic variable of the follower.
EnvLinesOfSingleFollower(key, value) ==
    IF key = <<"leader_port">>
    THEN <<EnvLine(<<"LEADER_PORT">>, value), EnvLine(<<"TELEOP_PORT">>, value)>>
    ELSE IF key = <<"follower_port">>
    THEN <<EnvLine(<<"FOLLOWER_PORT">>, value)>>
    ELSE <<EnvLine(Upper(key), value)>>

\* The lines one item of the dict contributes to .env.
EnvLinesOf(key, value) ==
    IF key = <<"leader_port">>
    THEN <<EnvLine(<<"LEADER_PORT">>, value), EnvLine(<<"TELEOP_PORT">>, value)>>
    ELSE IF key = <<"follower_port">>
    THEN <<EnvLine(<<"FOLLOWER_PORT">>, value), EnvLine(<<"ROBOT_PORT">>, value)>>
    ELSE <<EnvLine(Upper(key), value)>>

RECURSIVE EnvLines(_)
EnvLines(d) ==
    IF d = EmptyDict THEN << >>
    ELSE EnvLinesOf(d[1][1], d[1][2]) \o EnvLines(Tail(d))

\* open(CONFIG_FILE, 'w') truncates, then json.dump writes the document.
WriteConfigFile(old, d) == File(JsonDump(d))

\* A writer that opens .env for appending.
WriteEnvFileAppending(old, d) ==
    File((IF old.exists THEN old.content ELSE << >>) \o EnvLines(d))

\* open(ENV_FILE, 'w') truncates, then the loop writes the lines.
WriteEnvFile(old, d) == File(EnvLines(d))

\* A save that leaves .env as it was.
save_config_json_only(d) ==
    /\ configFile' = WriteConfigFile(configFile, d)
    /\ envFile' = envFile

\* save_config(config): both files are rewritten from the dict.
save_config(d) ==
    /\ configFile' = WriteConfigFile(configFile, d)
    /\ envFile' = WriteEnvFile(envFile, d)

\* ------------------------------------------------------------------------
\* Config store runs: save_config(m) for any mapping m over the supported
\* keys, then load_config()
\* ------------------------------------------------------------------------

LeaderKey == <<"leader_port">>

FollowerKey == <<"follower_port">>

CamerasKey == <<"robot_cameras">>

SupportedKeys == {LeaderKey, FollowerKey, CamerasKey}

\* The str values the runs store: the empty str, a device path, a camera
\* description with quotes and braces, and a str of backslashes and a line feed.
StoreValues ==
    { << >>,
      <<"/dev/ttyACM", "0">>,
      <<"{", Quote, "front", Quote, ":", " ", "}", ",">>,
      <<Backslash, "n", LineFeed, Backslash>> }

Injective(f) == \A i, j \in DOMAIN f : f[i] = f[j] => i = j

\* Every dict over the supported keys, in every insertion order.
Mappings ==
    UNION { { [i \in 1..n |-> <<ks[i], vs[i]>>] :
                ks \in {f \in [1..n -> SupportedKeys] : Injective(f)},
                vs \in [1..n -> StoreValues] } :
            n \in 0..Cardinality(SupportedKeys) }

InitStore ==
    /\ config = EmptyDict
    /\ configFile = NoFile
    /\ envFile = NoFile
    /\ loaded = None
    /\ saves = 0
    /\ earlierKeys = {}
    /\ pc = "store_idle"
    /\ CliIdle
    /\ BatchIdle
    /\ ReviewIdle

\* save_config(m)
StoreSave(m) ==
    /\ pc \in {"store_idle", "store_loaded"}
    /\ saves < MaxSaves
    /\ config' = m
    /\ save_config(m)
    /\ loaded' = None
    /\ saves' = saves + 1
    /\ earlierKeys' = earlierKeys \cup DictKeys(config)
    /\ pc' = "store_saved"
    /\ UNCHANGED <<cliVars, batchVars, reviewVars>>

\* load_config() after the save
StoreLoad ==
    /\ pc = "store_saved"
    /\ loaded' = Some(load_config(configFile))
    /\ pc' = "store_loaded"
    /\ UNCHANGED <<config, configFile, envFile, saves, earlierKeys>>
    /\ UNCHANGED <<cliVars, batchVars, reviewVars>>

NextStore ==
    \/ \E m \in Mappings : StoreSave(m)
    \/ StoreLoad

SpecStore == InitStore /\ [][NextStore]_vars

\* ------------------------------------------------------------------------
\* The terminal, the devices and the child processes of src/cli.py
\* ------------------------------------------------------------------------

\* What input() delivers: a line (a str), or the user's interrupt, which
\* raises KeyboardInterrupt in the script.
Line(s) == [line |-> s]

Interrupt == [interrupt |-> TRUE]

Digits == <<"0", "1", "2", "3", "4", "5", "6", "7", "8", "9">>

\* The serial device paths the operating system can list.
DevicePath(i) == <<"/dev/ttyACM", Digits[i + 1]>>

Devices == {DevicePath(i) : i \in 0..(NumPorts - 1)}

\* int(s) for the one-digit lines the model types; None stands for ValueError.
ParseInt(s) ==
    IF Len(s) = 1 /\ \E n \in 0..9 : Digits[n + 1] = s[1]
    THEN Some(CHOOSE n \in 0..9 : Digits[n + 1] = s[1])
    ELSE None

\* The lines typed at the menus: the options, and one that is none of them.
MenuLines == {<<"1">>, <<"2">>, <<"3">>, <<"4">>, <<"q">>, <<"x">>}

\* The dataset directories that may exist under the cache directory, in
\* sorted order; existing_datasets is a sorted subsequence of it.
AllDatasets == << <<"cups">>, <<"tape">> >>

DatasetLists ==
    { SelectSeq(AllDatasets, LAMBDA n : n \in S) :
        S \in SUBSET {AllDatasets[i] : i \in 1..Len(AllDatasets)} }

TypedNames == {<< >>, <<"my_task_test">>}

TypedTasks == {<< >>, <<"grab tape">>}

TypedEpisodes == {<< >>, <<"2">>}

\* f"v{lerobot.__version__}"
VersionTag == <<"v", "0.4.0">>

\* The locals of an operation that is not running.
NoLocals ==
    [initial_ports |-> {}, after_unplug_ports |-> {}, found_port |-> None,
     existing_datasets |-> << >>, dataset_name |-> << >>, resume_flag |-> <<"false">>,
     task_desc |-> << >>, episodes |-> << >>]

\* ------------------------------------------------------------------------
\* main_menu
\* ------------------------------------------------------------------------

\* The mappings config.json may hold when the script starts.
InitialConfigs ==
    { EmptyDict,
      << <<LeaderKey, DevicePath(0)>> >>,
      << <<FollowerKey, DevicePath(0)>>, <<LeaderKey, << >> >> >>,
      << <<CamerasKey, <<"{", Quote, "front", Quote, ":", " ", "}", ",">> >>,
         <<LeaderKey, DevicePath(1)>>, <<FollowerKey, DevicePath(0)>> >> }

\* The two files at start: absent, as an earlier run saved them, or a
\* config.json cut short (which does not decode).
InitialFiles ==
    { <<NoFile, NoFile>> }
    \cup { <<File(JsonDump(d)), File(EnvLines(d))>> : d \in InitialConfigs }
    \cup { <<File(<<"{", LineFeed, Indent, Quote, "leader_port">>), NoFile>> }

Init ==
    /\ \E f \in InitialFiles : configFile = f[1] /\ envFile = f[2]
    /\ config = EmptyDict
    /\ StoreIdle
    /\ BatchIdle
    /\ ReviewIdle
    /\ pc = "start"
    /\ stdin = Line(<< >>)
    /\ out = ""
    /\ locals = NoLocals
    /\ cmd = None
    /\ result = "none"
    /\ tag_call = None

\* What only the role assignment writes, and what the menu never touches.
filesUnchanged == UNCHANGED <<configFile, envFile, storeVars, batchVars, reviewVars>>

\* config = load_config()
main_menu_load ==
    /\ pc = "start"
    /\ config' = load_config(configFile)
    /\ pc' = "menu"
    /\ filesUnchanged
    /\ UNCHANGED <<stdin, out, locals, cmd, result, tag_call>>

\* A KeyboardInterrupt that no handler of the operation catches: it leaves
\* main_menu and is caught at the bottom of the script, which prints
\* "Exiting..." and calls sys.exit(0).
Exits ==
    /\ pc' = "exited"
    /\ out' = "Exiting..."
    /\ locals' = NoLocals

\* Back at the top of main_menu's loop, waiting for an option.
ToMenu ==
    /\ pc' = "menu"
    /\ locals' = NoLocals

PromptPcs ==
    {"menu", "find_plugged", "find_unplug", "find_reconnect", "assign_role",
     "calib_choice", "teleop_confirm", "record_choice", "record_name",
     "record_task", "record_episodes", "record_confirm"}

\* The user interrupts an input() call: none of them is inside a try.
prompt_interrupt ==
    /\ pc \in PromptPcs
    /\ stdin' = Interrupt
    /\ Exits
    /\ cmd' = IF pc = "menu" THEN None ELSE cmd
    /\ result' = IF pc = "menu" THEN "none" ELSE result
    /\ tag_call' = IF pc = "menu" THEN None ELSE tag_call
    /\ filesUnchanged
    /\ UNCHANGED config

\* The option read at the menu starts a new operation: what is recorded of
\* the last operation's child process is cleared.
MenuReads(l) ==
    /\ pc = "menu"
    /\ stdin' = Line(l)
    /\ cmd' = None
    /\ result' = "none"
    /\ tag_call' = None
    /\ filesUnchanged
    /\ UNCHANGED config

\* choice == '1': run_clean_find_port() up to its first input()
menu_find_port ==
    /\ MenuReads(<<"1">>)
    /\ pc' = "find_plugged"
    /\ out' = "1. Ensure your device is currently PLUGGED IN."
    /\ UNCHANGED locals

\* choice == '2': run_calibration(config) up to its input()
menu_calibrate ==
    /\ MenuReads(<<"2">>)
    /\ pc' = "calib_choice"
    /\ out' = "3. Cancel"
    /\ UNCHANGED locals

\* choice == 'q'
menu_quit ==
    /\ MenuReads(<<"q">>)
    /\ pc' = "exited"
    /\ out' = "Exiting..."
    /\ UNCHANGED locals

\* any other line
menu_invalid ==
    /\ \E l \in MenuLines \ {<<"1">>, <<"2">>, <<"3">>, <<"4">>, <<"q">>} : MenuReads(l)
    /\ pc' = "menu"
    /\ out' = "Invalid option."
    /\ UNCHANGED locals

\* ------------------------------------------------------------------------
\* run_clean_find_port and assign_role
\* ------------------------------------------------------------------------

\* The difference taken the wrong way round.
RemovedPortsReversed(before, after) == after \ before

\* removed_ports = initial_ports - after_unplug_ports
RemovedPorts(before, after) == before \ after

\* found_port: the one removed port, else None.
FoundPort(removed) ==
    IF Cardinality(removed) = 1 THEN Some(CHOOSE p \in removed : TRUE) ELSE None

\* Enter at "Press Enter to continue...", then
\* initial_ports = get_current_ports_set()
find_port_snapshot_initial ==
    /\ pc = "find_plugged"
    /\ stdin' = Line(<< >>)
    /\ \E listed \in SUBSET Devices :
         locals' = [locals EXCEPT !.initial_ports = listed]
    /\ pc' = "find_unplug"
    /\ out' = "2. UNPLUG the USB cable now."
    /\ filesUnchanged
    /\ UNCHANGED <<config, cmd, result, tag_call>>

\* Enter at "Press Enter when unplugged...", then the second snapshot, the
\* difference and the report
find_port_snapshot_after ==
    /\ pc = "find_unplug"
    /\ stdin' = Line(<< >>)
    /\ \E listed \in SUBSET Devices :
         LET removed_ports == RemovedPorts(locals.initial_ports, listed) IN
         /\ locals' = [locals EXCEPT !.after_unplug_ports = listed,
                                     !.found_port = FoundPort(removed_ports)]
         /\ out' = IF Cardinality(removed_ports) = 1 THEN "---> Detected Port"
                   ELSE IF Cardinality(removed_ports) = 0
                   THEN "[!] No port disappearance detected. Did you unplug it?"
                   ELSE "[!] Multiple ports disappeared"
    /\ pc' = "find_reconnect"
    /\ filesUnchanged
    /\ UNCHANGED <<config, cmd, result, tag_call>>

\* Enter at "Press Enter when reconnected...": return found_port; main_menu
\* goes on to assign_role(port) only `if port`.
find_port_return ==
    /\ pc = "find_reconnect"
    /\ stdin' = Line(<< >>)
    /\ IF Truthy(locals.found_port)
       THEN /\ pc' = "assign_role"
            /\ out' = "3. Cancel"
            /\ locals' = [NoLocals EXCEPT !.found_port = locals.found_port]
       ELSE /\ ToMenu
            /\ UNCHANGED out
    /\ filesUnchanged
    /\ UNCHANGED <<config, cmd, result, tag_call>>

AssignLines == {<<"1">>, <<"2">>, <<"3">>, <<"x">>}

\* assign_role's answer for a line: the role key, None for cancel.
RoleKey(l) ==
    IF l = <<"1">> THEN Some(LeaderKey)
    ELSE IF l = <<"2">> THEN Some(FollowerKey)
    ELSE None

\* assign_role(port): '1' or '2' returns a key, and main_menu sets it and
\* saves at once; '3' returns None; anything else asks again.
assign_role ==
    /\ pc = "assign_role"
    /\ \E l \in AssignLines :
         /\ stdin' = Line(l)
         /\ IF l \in {<<"1">>, <<"2">>}
            THEN LET role_key == RoleKey(l).val
                     port == locals.found_port.val IN
                 /\ config' = DictSet(config, role_key, port)
                 /\ save_config(DictSet(config, role_key, port))
                 /\ out' = "Saved to config.json and .env"
                 /\ ToMenu
            ELSE IF l = <<"3">>
            THEN /\ ToMenu
                 /\ UNCHANGED <<config, configFile, envFile, out>>
            ELSE /\ out' = "Invalid."
                 /\ UNCHANGED <<config, configFile, envFile, pc, locals>>
    /\ UNCHANGED <<storeVars, batchVars, reviewVars, cmd, result, tag_call>>

\* ------------------------------------------------------------------------
\* Dispatching the external commands
\* ------------------------------------------------------------------------

\* subprocess.run(cmd, check=True): the child starts and the script waits
\* for it, or the executable is not on the PATH (FileNotFoundError, which
\* every caller reports before it returns to the menu).
Dispatch(argv, childPc, notFound) ==
    /\ cmd' = Some(argv)
    /\ \/ /\ result' = "running"
          /\ pc' = childPc
          /\ UNCHANGED <<out, locals>>
       \/ /\ result' = "not_found"
          /\ out' = notFound
          /\ ToMenu

\* A guard that lets one unset port through.
BothPortsSetEither(d) ==
    Truthy(DictGet(d, LeaderKey)) \/ Truthy(DictGet(d, FollowerKey))

\* `if not l_port or not f_port` is false
BothPortsSet(d) ==
    Truthy(DictGet(d, LeaderKey)) /\ Truthy(DictGet(d, FollowerKey))

\* An optional str in an f-string: None is written "None".
Format(o) == IF o = None THEN <<"None">> ELSE o.val

\* config.get("robot_cameras", "None")
Cameras(d) ==
    IF DictHas(d, CamerasKey) THEN DictGet(d, CamerasKey).val ELSE <<"None">>

CalibrateLeaderCmd(port) ==
    << <<"lerobot-calibrate">>, <<"--teleop.type=so101_leader">>,
       <<"--teleop.port=">> \o port, <<"--teleop.id=Leader">> >>

CalibrateFollowerCmd(port) ==
    << <<"lerobot-calibrate">>, <<"--robot.type=so101_follower">>,
       <<"--robot.port=">> \o port, <<"--robot.id=Follower">> >>

TeleopCmd(d) ==
    << <<"lerobot-teleoperate">>, <<"--robot.type=so101_follower">>,
       <<"--robot.port=">> \o Format(DictGet(d, FollowerKey)), <<"--robot.id=Follower">>,
       <<"--robot.cameras=">> \o Cameras(d), <<"--teleop.type=so101_leader">>,
       <<"--teleop.port=">> \o Format(DictGet(d, LeaderKey)), <<"--teleop.id=Leader">>,
       <<"--display_data=True">> >>

\* repo_id = f"lehungry-robotum/{dataset_name}"
RepoId(dataset_name) == <<"lehungry-robotum/">> \o dataset_name

RecordCmd(d, l) ==
    << <<"lerobot-record">>, <<"--robot.type=so101_follower">>,
       <<"--robot.port=">> \o Format(DictGet(d, FollowerKey)), <<"--robot.id=Follower">>,
       <<"--robot.cameras=">> \o Cameras(d), <<"--teleop.type=so101_leader">>,
       <<"--teleop.port=">> \o Format(DictGet(d, LeaderKey)), <<"--teleop.id=Leader">>,
       <<"--display_data=true">>,
       <<"--dataset.repo_id=">> \o RepoId(l.dataset_name),
       <<"--dataset.num_episodes=">> \o l.episodes,
       <<"--dataset.single_task=">> \o l.task_desc,
       <<"--resume=">> \o l.resume_flag >>

\* The exit statuses a child may end with.
ExitCodes == {0, 1}

\* ------------------------------------------------------------------------
\* run_calibration
\* ------------------------------------------------------------------------

CalibLines == {<<"1">>, <<"2">>, <<"3">>, <<"x">>}

\* The choice of the arm, the guard on its port, and subprocess.run
run_calibration_choice ==
    /\ pc = "calib_choice"
    /\ \E l \in CalibLines :
         /\ stdin' = Line(l)
         /\ IF l \in {<<"1">>, <<"2">>}
            THEN LET port == DictGet(config, IF l = <<"1">> THEN LeaderKey ELSE FollowerKey) IN
                 IF ~Truthy(port)
                 THEN /\ out' = IF l = <<"1">>
                                THEN "Error: Leader Port not set. Please 'Find Port' first."
                                ELSE "Error: Follower Port not set. Please 'Find Port' first."
                      /\ ToMenu
                      /\ UNCHANGED <<cmd, result>>
                 ELSE Dispatch(IF l = <<"1">> THEN CalibrateLeaderCmd(port.val)
                                              ELSE CalibrateFollowerCmd(port.val),
                               "calib_child",
                               "Error: 'lerobot-calibrate' not found in PATH.")
            ELSE /\ out' = IF l = <<"3">> THEN out ELSE "Invalid choice."
                 /\ ToMenu
                 /\ UNCHANGED <<cmd, result>>
    /\ filesUnchanged
    /\ UNCHANGED <<config, tag_call>>

\* The calibration child ends: CalledProcessError is reported.
run_calibration_child_exit ==
    /\ pc = "calib_child"
    /\ \E code \in ExitCodes :
         /\ result' = IF code = 0 THEN "completed" ELSE "failed"
         /\ out' = IF code = 0 THEN "Calibration process finished."
                   ELSE "Error: Calibration failed with exit code"
    /\ ToMenu
    /\ filesUnchanged
    /\ UNCHANGED <<config, stdin, cmd, tag_call>>

\* The user interrupts the calibration child: run_calibration's try has no
\* handler for KeyboardInterrupt.
run_calibration_child_interrupt ==
    /\ pc = "calib_child"
    /\ result' = "interrupted"
    /\ Exits
    /\ filesUnchanged
    /\ UNCHANGED <<config, stdin, cmd, tag_call>>

\* ------------------------------------------------------------------------
\* run_teleop
\* ------------------------------------------------------------------------

\* choice == '3': run_teleop(config) up to its input(), or its guard
menu_teleop ==
    /\ MenuReads(<<"3">>)
    /\ IF ~BothPortsSet(config)
       THEN /\ out' = "Error: Both Leader and Follower ports must be set."
            /\ ToMenu
       ELSE /\ out' = "Press Enter to START teleoperation (Ctrl+C to stop)..."
            /\ pc' = "teleop_confirm"
            /\ UNCHANGED locals

\* Enter, then subprocess.run
run_teleop_dispatch ==
    /\ pc = "teleop_confirm"
    /\ stdin' = Line(<< >>)
    /\ Dispatch(TeleopCmd(config), "teleop_child",
                "Error: 'lerobot-teleoperate' command not found in PATH.")
    /\ filesUnchanged
    /\ UNCHANGED <<config, tag_call>>

run_teleop_child_exit ==
    /\ pc = "teleop_child"
    /\ \E code \in ExitCodes :
         /\ result' = IF code = 0 THEN "completed" ELSE "failed"
         /\ out' = IF code = 0 THEN out
                   ELSE "Teleoperation ended/failed with exit code"
    /\ ToMenu
    /\ filesUnchanged
    /\ UNCHANGED <<config, stdin, cmd, tag_call>>

\* except KeyboardInterrupt
run_teleop_child_interrupt ==
    /\ pc = "teleop_child"
    /\ result' = "interrupted"
    /\ out' = "Teleoperation stopped."
    /\ ToMenu
    /\ filesUnchanged
    /\ UNCHANGED <<config, stdin, cmd, tag_call>>

\* ------------------------------------------------------------------------
\* run_record
\* ------------------------------------------------------------------------

\* choice == '4': run_record(config) up to its first input(), or its guard
menu_record ==
    /\ MenuReads(<<"4">>)
    /\ IF ~BothPortsSet(config)
       THEN /\ out' = "Error: Both Leader and Follower ports must be set."
            /\ ToMenu
       ELSE /\ \E listed \in DatasetLists :
                 locals' = [NoLocals EXCEPT !.existing_datasets = listed]
            /\ out' = "Select dataset:"
            /\ pc' = "record_choice"

RecordLines == {<<"0">>, <<"1">>, <<"2">>, <<"3">>, <<"4">>, <<"5">>, <<"x">>}

\* The dataset menu: resume, new, cancel, or ask again
run_record_choice ==
    /\ pc = "record_choice"
    /\ \E l \in RecordLines :
         LET n == ParseInt(l)
             existing == locals.existing_datasets IN
         /\ stdin' = Line(l)
         /\ IF n = None
            THEN /\ out' = "Please enter a number."
                 /\ UNCHANGED <<pc, locals>>
            ELSE LET choice_idx == n.val - 1 IN
                 IF 0 <= choice_idx /\ choice_idx < Len(existing)
                 THEN /\ locals' = [locals EXCEPT
                                      !.dataset_name = existing[choice_idx + 1],
                                      !.resume_flag = <<"true">>]
                      /\ out' = "Resuming dataset"
                      /\ pc' = "record_task"
                 ELSE IF choice_idx = Len(existing)
                 THEN /\ pc' = "record_name"
                      /\ UNCHANGED <<out, locals>>
                 ELSE IF choice_idx = Len(existing) + 1
                 THEN /\ ToMenu
                      /\ UNCHANGED out
                 ELSE /\ out' = "Invalid choice."
                      /\ UNCHANGED <<pc, locals>>
    /\ filesUnchanged
    /\ UNCHANGED <<config, cmd, result, tag_call>>

\* The name of a new dataset; an empty name goes back to the dataset menu
run_record_name ==
    /\ pc = "record_name"
    /\ \E name \in TypedNames :
         /\ stdin' = Line(name)
         /\ IF name = << >>
            THEN /\ out' = "Name cannot be empty."
                 /\ pc' = "record_choice"
                 /\ UNCHANGED locals
            ELSE /\ locals' = [locals EXCEPT !.dataset_name = name,
                                             !.resume_flag = <<"false">>]
                 /\ pc' = "record_task"
                 /\ UNCHANGED out
    /\ filesUnchanged
    /\ UNCHANGED <<config, cmd, result, tag_call>>

run_record_task ==
    /\ pc = "record_task"
    /\ \E typed \in TypedTasks :
         /\ stdin' = Line(typed)
         /\ locals' = [locals EXCEPT !.task_desc =
                          IF typed = << >> THEN <<"generic task">> ELSE typed]
    /\ pc' = "record_episodes"
    /\ filesUnchanged
    /\ UNCHANGED <<config, out, cmd, result, tag_call>>

run_record_episodes ==
    /\ pc = "record_episodes"
    /\ \E typed \in TypedEpisodes :
         /\ stdin' = Line(typed)
         /\ locals' = [locals EXCEPT !.episodes =
                          IF typed = << >> THEN <<"5">> ELSE typed]
    /\ pc' = "record_confirm"
    /\ out' = "Press Enter to START recording (Ctrl+C to stop)..."
    /\ filesUnchanged
    /\ UNCHANGED <<config, cmd, result, tag_call>>

\* Enter, then subprocess.run
run_record_dispatch ==
    /\ pc = "record_confirm"
    /\ stdin' = Line(<< >>)
    /\ Dispatch(RecordCmd(config, locals), "record_child",
                "Error: 'lerobot-record' command not found in PATH.")
    /\ filesUnchanged
    /\ UNCHANGED <<config, tag_call>>

\* A tagging step that forgets to test the resume flag.
TagsAfterAnyCompletion(code, resume_flag) == code = 0

\* subprocess.run(check=True) returned (exit status 0) and
\* `if resume_flag == "false"`: the tagging block is entered.
TagsAfter(code, resume_flag) == code = 0 /\ resume_flag = <<"false">>

\* The record child ends.  After exit status 0 of a new dataset the script
\* goes on to hub_api.create_tag(...).
run_record_child_exit ==
    /\ pc = "record_child"
    /\ \E code \in ExitCodes :
         /\ result' = IF code = 0 THEN "completed" ELSE "failed"
         /\ IF TagsAfter(code, locals.resume_flag)
            THEN /\ out' = "[TAGGING] Creating tag"
                 /\ tag_call' = Some([repo_id |-> RepoId(locals.dataset_name),
                                      tag |-> VersionTag,
                                      repo_type |-> <<"dataset">>,
                                      outcome |-> "calling"])
                 /\ pc' = "record_tag"
                 /\ UNCHANGED locals
            ELSE /\ out' = IF code = 0 THEN out
                           ELSE "Recording ended/failed with exit code"
                 /\ ToMenu
                 /\ UNCHANGED tag_call
    /\ filesUnchanged
    /\ UNCHANGED <<config, stdin, cmd>>

\* except KeyboardInterrupt
run_record_child_interrupt ==
    /\ pc = "record_child"
    /\ result' = "interrupted"
    /\ out' = "Recording stopped."
    /\ ToMenu
    /\ filesUnchanged
    /\ UNCHANGED <<config, stdin, cmd, tag_call>>

\* create_tag returns, raises (except Exception: a warning), or is
\* interrupted (the outer except KeyboardInterrupt)
run_record_tag ==
    /\ pc = "record_tag"
    /\ \E outcome \in {"created", "raised", "interrupted"} :
         /\ tag_call' = Some([tag_call.val EXCEPT !.outcome = outcome])
         /\ out' = CASE outcome = "created" -> "[TAGGING] Successfully tagged"
                     [] outcome = "raised" -> "[TAGGING] Warning: Failed to create tag."
                     [] outcome = "interrupted" -> "Recording stopped."
    /\ ToMenu
    /\ filesUnchanged
    /\ UNCHANGED <<config, stdin, cmd, result>>

Next ==
    \/ main_menu_load
    \/ prompt_interrupt
    \/ menu_find_port
    \/ menu_calibrate
    \/ menu_teleop
    \/ menu_record
    \/ menu_quit
    \/ menu_invalid
    \/ find_port_snapshot_initial
    \/ find_port_snapshot_after
    \/ find_port_return
    \/ assign_role
    \/ run_calibration_choice
    \/ run_calibration_child_exit
    \/ run_calibration_child_interrupt
    \/ run_teleop_dispatch
    \/ run_teleop_child_exit
    \/ run_teleop_child_interrupt
    \/ run_record_choice
    \/ run_record_name
    \/ run_record_task
    \/ run_record_episodes
    \/ run_record_dispatch
    \/ run_record_child_exit
    \/ run_record_child_interrupt
    \/ run_record_tag

Spec == Init /\ [][Next]_vars

\* ------------------------------------------------------------------------
\* src/data_augmentation.py: augment_batch
\* ------------------------------------------------------------------------

TASK_COLUMN == "single_task"

\* str(n) for the one-digit task indices of the model.
IntToStr(n) == <<Digits[n + 1]>>

\* AUGMENTATION_CACHE.get(task_idx, [f"Task {task_idx}"])
CachedTasks(c, task_idx) ==
    IF DictHas(c, task_idx) THEN DictGet(c, task_idx).val
    ELSE << <<"Task ">> \o IntToStr(task_idx) >>

\* A copy that always takes the batch's first row.
AppendRowOfFirst(data, b, i, task_string) ==
    LET copied == [col \in DOMAIN data |->
                     IF col \in DOMAIN b THEN Append(data[col], b[col][1])
                     ELSE data[col]]
    IN [copied EXCEPT ![TASK_COLUMN] = Append(@, task_string)]

\* The body of the inner loop: every column of the batch gets row i's value
\* appended, then the text column gets the task string appended.
AppendRow(data, b, i, task_string) ==
    LET copied == [col \in DOMAIN data |->
                     IF col \in DOMAIN b THEN Append(data[col], b[col][i])
                     ELSE data[col]]
    IN [copied EXCEPT ![TASK_COLUMN] = Append(@, task_string)]

\* for task_string in augmented_tasks
RECURSIVE ExpandRow(_, _, _, _)
ExpandRow(data, b, i, augmented_tasks) ==
    IF augmented_tasks = << >> THEN data
    ELSE ExpandRow(AppendRow(data, b, i, Head(augmented_tasks)), b, i,
                   Tail(augmented_tasks))

\* for i in range(len(batch['task_index']))
RECURSIVE ExpandRows(_, _, _, _)
ExpandRows(data, b, c, i) ==
    IF i > Len(b["task_index"]) THEN data
    ELSE ExpandRows(ExpandRow(data, b, i, CachedTasks(c, b["task_index"][i])),
                    b, c, i + 1)

\* augment_batch(batch), reading the global AUGMENTATION_CACHE c: a batch is
\* a function from column names to equally long lists.
augment_batch(b, c) ==
    ExpandRows([col \in DOMAIN b \cup {TASK_COLUMN} |-> << >>], b, c, 1)

\* The task indices of the batches, one of them never cached in the runs.
TaskIndices == {1, 7}

TaskTexts == {<<"pick up the cup">>, <<"grab the cup">>}

\* The values of the batch's other column.
ActionValues == {0, 1}

\* The batches: always a task_index column, with or without another feature
\* column, with or without a text column of the name to augment.
Batches ==
    UNION { { [task_index |-> t] : t \in [1..n -> TaskIndices] }
            \cup { [task_index |-> t, action |-> a] :
                     t \in [1..n -> TaskIndices], a \in [1..n -> ActionValues] }
            \cup { [task_index |-> t, action |-> a, single_task |-> s] :
                     t \in [1..n -> TaskIndices], a \in [1..n -> ActionValues],
                     s \in [1..n -> TaskTexts] } :
            n \in 0..MaxRows }

\* The variant lists a cache entry may hold.
VariantLists ==
    { << >>,
      << <<"pick up the cup">> >>,
      << <<"pick up the cup">>, <<"grab the cup">> >>,
      << <<"grab the cup">>, <<"pick up the cup">>, <<"take the cup">> >> }

\* The caches: any entries for the task indices but the last.
CachedIndices == {1}

Caches ==
    {EmptyDict} \cup { << <<i, l>> >> : i \in CachedIndices, l \in VariantLists }

InitBatch ==
    /\ batch \in Batches
    /\ AUGMENTATION_CACHE \in Caches
    /\ new_data = << >>
    /\ pc = "batch_ready"
    /\ config = EmptyDict /\ configFile = NoFile /\ envFile = NoFile
    /\ StoreIdle
    /\ CliIdle
    /\ ReviewIdle

\* dataset.map calls augment_batch(batch)
AugmentBatch ==
    /\ pc = "batch_ready"
    /\ new_data' = augment_batch(batch, AUGMENTATION_CACHE)
    /\ pc' = "batch_done"
    /\ UNCHANGED <<batch, AUGMENTATION_CACHE>>
    /\ UNCHANGED <<config, configFile, envFile, storeVars, cliVars, reviewVars>>

NextBatch == AugmentBatch

SpecBatch == InitBatch /\ [][NextBatch]_vars

\* ------------------------------------------------------------------------
\* src/data_augmentation.py: generate_augmented_tasks, review_augmentations
\* ------------------------------------------------------------------------

\* num_augs: int = 3
num_augs == 3

\* str.strip(): blanks off both ends.
RECURSIVE LStrip(_, _)
LStrip(s, chars) ==
    IF s # << >> /\ Head(s) \in chars THEN LStrip(Tail(s), chars) ELSE s

RECURSIVE RStrip(_, _)
RStrip(s, chars) ==
    IF s # << >> /\ s[Len(s)] \in chars
    THEN RStrip(SubSeq(s, 1, Len(s) - 1), chars) ELSE s

Strip(s) == RStrip(LStrip(s, {" "}), {" "})

\* line.strip().lstrip('- ').strip()
CleanLine(line) == Strip(LStrip(Strip(line), {"-", " "}))

\* variations[:num_augs]
Truncate(l, n) == SubSeq(l, 1, IF Len(l) < n THEN Len(l) ELSE n)

\* The reply's lines that are not blank, cleaned, the first num_augs of them.
ParseVariations(lines) ==
    LET kept == SelectSeq(lines, LAMBDA line : Strip(line) # << >>)
    IN Truncate([i \in 1..Len(kept) |-> CleanLine(kept[i])], num_augs)

\* The lines a reply is made of: a blank line, a bulleted and a bare variant.
ReplyLines ==
    { <<" ">>, <<"-", " ", "grab the cup">>, <<"take the cup", " ">> }

Replies == UNION { [1..n -> ReplyLines] : n \in 0..MaxLines }

\* str.lower() on the symbols typed at the review prompt.
LowerSymbol(c) == IF c = "R" THEN "r" ELSE IF c = "N" THEN "n" ELSE c

Lower(s) == [i \in 1..Len(s) |-> LowerSymbol(s[i])]

\* The task mappings: task indices 0, 1, ... as the metadata file lists them.
ReviewTexts == {<<"pick up the cup">>, <<"grab tape">>}

TaskMappings == UNION { { [i \in 1..n |-> <<i - 1, t[i]>>] : t \in [1..n -> ReviewTexts] } :
                     n \in 0..MaxTasks }

ReviewLines == {<< >>, <<"y">>, <<"n">>, <<"r">>, <<"R", " ">>}

\* What a rejected task commits, kept with its variations.
CommittedKeepingRejected(choice, task_str, variants) == <<task_str>> \o variants

\* What the answer commits for the task: 'n' the original alone, anything
\* else (but 'r') the original and the variations.
Committed(choice, task_str, variants) ==
    IF choice = <<"n">> THEN <<task_str>> ELSE <<task_str>> \o variants

\* Where the loops stand once the task at `at` is the next one.
ReviewAt(at) == IF at > Len(mapping) THEN "review_done" ELSE "review_generate"

InitReview ==
    /\ mapping \in TaskMappings
    /\ cursor = 1
    /\ variations = << >>
    /\ cache = EmptyDict
    /\ pc = ReviewAt(1)
    /\ stdin = Line(<< >>)
    /\ StoreIdle
    /\ BatchIdle
    /\ config = EmptyDict /\ configFile = NoFile /\ envFile = NoFile
    /\ out = "" /\ locals = NoLocals /\ cmd = None /\ result = "none"
    /\ tag_call = None

reviewFrame ==
    UNCHANGED <<config, configFile, envFile, storeVars, batchVars,
                out, locals, cmd, result, tag_call, mapping>>

\* variations = generate_augmented_tasks(task_str): the reply parsed, or []
\* when the request raised
review_generate ==
    /\ pc = "review_generate"
    /\ \/ \E reply \in Replies : variations' = ParseVariations(reply)
       \/ variations' = << >>
    /\ pc' = "review_ask"
    /\ UNCHANGED <<cursor, cache, stdin>>
    /\ reviewFrame

\* choice = input(...).strip().lower(): retry, reject or accept
review_answer ==
    /\ pc = "review_ask"
    /\ \E typed \in ReviewLines :
         LET choice == Lower(Strip(typed))
             task_id == mapping[cursor][1]
             task_str == mapping[cursor][2] IN
         /\ stdin' = Line(typed)
         /\ IF choice = <<"r">>
            THEN /\ pc' = "review_generate"
                 /\ UNCHANGED <<cursor, cache>>
            ELSE /\ cache' = DictSet(cache, task_id, Committed(choice, task_str, variations))
                 /\ cursor' = cursor + 1
                 /\ pc' = ReviewAt(cursor + 1)
    /\ variations' = << >>
    /\ reviewFrame

NextReview ==
    \/ review_generate
    \/ review_answer

SpecReview == InitReview /\ [][NextReview]_vars

\* ========================================================================
\* The claims
\* ========================================================================

AfterSave == pc \in {"store_saved", "store_loaded"}

PortKeys == {LeaderKey, FollowerKey}

\* C5: load_config() called after save_config(m) returns a mapping equal to
\* m, for every mapping m over the supported keys with str values.
ConfigRoundTrip == pc = "store_loaded" => loaded = Some(config)

\* A round trip of three keys, one value holding backslashes and a line feed.
ConfigRoundTripWitness ==
    /\ pc = "store_loaded"
    /\ Len(config) = 3
    /\ \E i \in 1..3 : \E j \in 1..Len(config[i][2]) : config[i][2][j] = Backslash
    /\ loaded = Some(config)

\* C6 as stated: after save_config(m) the .env file holds exactly two entries
\* whenever m has a leader_port key or a follower_port key.
EnvExactlyTwoEntries ==
    (AfterSave /\ DictKeys(config) \cap PortKeys # {})
        => (envFile.exists /\ Len(envFile.content) = 2)

\* C6 as amended: after save_config(m) the .env file holds exactly two
\* entries for each of leader_port and follower_port that m has, and one for
\* each other key of m.
EnvEntryCount ==
    AfterSave =>
        /\ envFile.exists
        /\ Len(envFile.content) =
              2 * Cardinality(DictKeys(config) \cap PortKeys)
                + Cardinality(DictKeys(config) \ PortKeys)

\* Both port keys and the camera key saved: five entries.
EnvEntryCountWitness ==
    /\ pc = "store_saved"
    /\ DictKeys(config) = SupportedKeys
    /\ Len(envFile.content) = 5

\* An entry of .env read back: NAME="value" and a line feed.
EntryWellFormed(line) ==
    /\ Len(line) >= 5
    /\ line[2] = "="
    /\ line[3] = Quote
    /\ line[Len(line) - 1] = Quote
    /\ line[Len(line)] = LineFeed

EntryOf(line) == <<line[1], SubSeq(line, 4, Len(line) - 2)>>

\* The variables the claim asks for, as <<name, value>> pairs.
ExpectedEntries(d) ==
    LET names(k) ==
            CASE k = LeaderKey -> {"LEADER_PORT", "TELEOP_PORT"}
              [] k = FollowerKey -> {"FOLLOWER_PORT", "ROBOT_PORT"}
              [] k = CamerasKey -> {"ROBOT_CAMERAS"}
    IN UNION { {<<n, d[i][2]>> : n \in names(d[i][1])} : i \in 1..Len(d) }

\* C7: after save_config(m) the .env file holds LEADER_PORT and TELEOP_PORT
\* with leader_port's value, FOLLOWER_PORT and ROBOT_PORT with
\* follower_port's value, one variable named by the uppercase key for every
\* other key, and nothing else: no entry of an earlier save survives.
EnvFileContents ==
    AfterSave =>
        /\ envFile.exists
        /\ \A i \in 1..Len(envFile.content) : EntryWellFormed(envFile.content[i])
        /\ {EntryOf(envFile.content[i]) : i \in 1..Len(envFile.content)}
              = ExpectedEntries(config)
        /\ Len(envFile.content) = Cardinality(ExpectedEntries(config))

\* A save that follows one which wrote leader_port, of a mapping without it.
EnvFileContentsWitness ==
    /\ pc = "store_saved"
    /\ LeaderKey \in earlierKeys
    /\ DictKeys(config) = {FollowerKey}
    /\ \A i \in 1..Len(envFile.content) : envFile.content[i][1] # "LEADER_PORT"

\* ------------------------------------------------------------------------
\* Claims about the menu operations (specification Spec)
\* ------------------------------------------------------------------------

\* C1: run_clean_find_port returns a port only when exactly one path of the
\* first snapshot is missing from the second, and then returns that path;
\* when no path or more than one disappeared it returns None.
FindPortReturnsSoleRemoved ==
    pc = "find_reconnect" =>
        LET gone == {p \in locals.initial_ports : p \notin locals.after_unplug_ports} IN
        /\ locals.found_port # None =>
              (Cardinality(gone) = 1 /\ locals.found_port.val \in gone)
        /\ Cardinality(gone) # 1 => locals.found_port = None

\* One device unplugged while an unrelated one appeared.
FindPortReturnsSoleRemovedWitness ==
    /\ pc = "find_reconnect"
    /\ locals.initial_ports = {DevicePath(0), DevicePath(1)}
    /\ locals.after_unplug_ports = {DevicePath(1), DevicePath(2)}
    /\ locals.found_port = Some(DevicePath(0))

LeaderSet == Truthy(DictGet(config, LeaderKey))

FollowerSet == Truthy(DictGet(config, FollowerKey))

\* C9: a command is handed to subprocess.run only with its required ports
\* set (both for teleoperate and record, the chosen arm's for calibrate);
\* with one unset, the operation prints its error and is back at the menu,
\* without a child and without leaving main_menu.
NoDispatchWithUnsetPort ==
    [][ /\ (cmd = None /\ cmd' # None) =>
              LET argv == cmd'.val IN
              /\ argv[1] \in {<<"lerobot-teleoperate">>, <<"lerobot-record">>} =>
                    /\ LeaderSet /\ FollowerSet
                    /\ argv[3] = <<"--robot.port=">> \o DictGet(config, FollowerKey).val
                    /\ argv[7] = <<"--teleop.port=">> \o DictGet(config, LeaderKey).val
              /\ (argv[1] = <<"lerobot-calibrate">>
                    /\ argv[2] = <<"--teleop.type=so101_leader">>) =>
                    /\ LeaderSet
                    /\ argv[3] = <<"--teleop.port=">> \o DictGet(config, LeaderKey).val
              /\ (argv[1] = <<"lerobot-calibrate">>
                    /\ argv[2] = <<"--robot.type=so101_follower">>) =>
                    /\ FollowerSet
                    /\ argv[3] = <<"--robot.port=">> \o DictGet(config, FollowerKey).val
        /\ (pc = "menu" /\ stdin' \in {Line(<<"3">>), Line(<<"4">>)}
               /\ ~(LeaderSet /\ FollowerSet)) =>
              /\ pc' = "menu" /\ cmd' = None /\ result' = "none"
              /\ out' = "Error: Both Leader and Follower ports must be set."
        /\ (pc = "calib_choice" /\ stdin' = Line(<<"1">>) /\ ~LeaderSet) =>
              /\ pc' = "menu" /\ cmd' = None /\ result' = "none"
              /\ out' = "Error: Leader Port not set. Please 'Find Port' first."
        /\ (pc = "calib_choice" /\ stdin' = Line(<<"2">>) /\ ~FollowerSet) =>
              /\ pc' = "menu" /\ cmd' = None /\ result' = "none"
              /\ out' = "Error: Follower Port not set. Please 'Find Port' first."
      ]_vars

\* Teleoperate refused with the follower port set and the leader port the
\* empty str.
NoDispatchWithUnsetPortWitness ==
    /\ pc = "menu"
    /\ stdin = Line(<<"3">>)
    /\ out = "Error: Both Leader and Follower ports must be set."
    /\ FollowerSet
    /\ DictGet(config, LeaderKey) = Some(<< >>)
    /\ cmd = None

\* C10: a user interrupt that arrives while the child of calibrate,
\* teleoperate or record runs is caught in the operation and reported as a
\* stop, and the script is back at the main menu.
ChildInterruptReturnsToMenu ==
    result = "interrupted" =>
        /\ pc = "menu"
        /\ out \in {"Calibration stopped.", "Teleoperation stopped.", "Recording stopped."}

\* ------------------------------------------------------------------------
\* Claims about augment_batch (specification SpecBatch)
\* ------------------------------------------------------------------------

\* len(cache.get(idx, [placeholder]))
VariantCount(c, idx) == IF DictHas(c, idx) THEN Len(DictGet(c, idx).val) ELSE 1

\* The sum of the variant counts of the input rows 1..i.
RECURSIVE RowsThrough(_, _, _)
RowsThrough(b, c, i) ==
    IF i = 0 THEN 0
    ELSE RowsThrough(b, c, i - 1) + VariantCount(c, b["task_index"][i])

ExpectedRows == RowsThrough(batch, AUGMENTATION_CACHE, Len(batch["task_index"]))

\* C2: every column of augment_batch's output has as many entries as the sum,
\* over the input rows, of len(cache.get(task_index, [placeholder])).
BatchRowCount ==
    pc = "batch_done" =>
        \A col \in DOMAIN new_data : Len(new_data[col]) = ExpectedRows

\* The input row that output row j was derived from.
SourceRow(j) ==
    CHOOSE i \in 1..Len(batch["task_index"]) :
        /\ RowsThrough(batch, AUGMENTATION_CACHE, i - 1) < j
        /\ j <= RowsThrough(batch, AUGMENTATION_CACHE, i)

\* C3: in every output row, every column other than the text column holds
\* the value the column has in the input row the output row was derived from.
ColumnsPreserved ==
    pc = "batch_done" =>
        \A col \in DOMAIN new_data \ {TASK_COLUMN} :
            /\ col \in DOMAIN batch
            /\ Len(new_data[col]) = ExpectedRows
            /\ \A j \in 1..ExpectedRows : new_data[col][j] = batch[col][SourceRow(j)]

\* Two rows with different feature values, the first expanded threefold, the
\* second by the placeholder.
ColumnsPreservedWitness ==
    /\ pc = "batch_done"
    /\ "action" \in DOMAIN batch
    /\ batch["task_index"] = <<1, 7>>
    /\ batch["action"] = <<0, 1>>
    /\ new_data["action"] = <<0, 0, 0, 1>>
    /\ new_data["task_index"] = <<1, 1, 1, 7>>

\* The variant list of a task index, the one fallback str "Task <index>"
\* when the cache has no entry for it.
VariantsOf(c, idx) ==
    IF DictHas(c, idx) THEN DictGet(c, idx).val
    ELSE << <<"Task ", Digits[idx + 1]>> >>

RECURSIVE TextThrough(_, _, _)
TextThrough(b, c, i) ==
    IF i = 0 THEN << >>
    ELSE TextThrough(b, c, i - 1) \o VariantsOf(c, b["task_index"][i])

\* C4: the text column of the output is, in input row order, each row's
\* cached variant list in cache order, a row without cache entry giving the
\* one fallback str of its index.
TextColumnIsVariantsInOrder ==
    pc = "batch_done" =>
        new_data[TASK_COLUMN]
          = TextThrough(batch, AUGMENTATION_CACHE, Len(batch["task_index"]))

\* ------------------------------------------------------------------------
\* Claims about review_augmentations (specification SpecReview)
\* ------------------------------------------------------------------------

\* The answer read at the review prompt, as the claim names it.
Answer(l) ==
    IF l \in {Line(<<"r">>), Line(<<"R", " ">>)} THEN "retry"
    ELSE IF l = Line(<<"n">>) THEN "reject"
    ELSE "accept"

\* C8: at the review prompt a retry commits nothing, stays on the task and
\* generates again; accept commits [original] + the variations generated
\* last, reject commits [original]; both move on to the next task; and
\* generating commits nothing.
ReviewCommitsFinalAnswer ==
    [][ /\ pc = "review_ask" =>
              LET task_id == mapping[cursor][1]
                  task_str == mapping[cursor][2] IN
              /\ Answer(stdin') = "retry" =>
                    /\ cache' = cache /\ cursor' = cursor
                    /\ pc' = "review_generate"
              /\ Answer(stdin') = "accept" =>
                    /\ cache' = Append(cache, <<task_id, <<task_str>> \o variations>>)
                    /\ cursor' = cursor + 1
              /\ Answer(stdin') = "reject" =>
                    /\ cache' = Append(cache, <<task_id, <<task_str>> >>)
                    /\ cursor' = cursor + 1
              /\ pc' \in {"review_generate", "review_done"}
              /\ pc' = "review_done" <=> cursor' > Len(mapping)
        /\ pc = "review_generate" =>
              /\ cache' = cache /\ cursor' = cursor /\ pc' = "review_ask"
      ]_vars

\* Two tasks reviewed: the first accepted with two variations, the second
\* accepted with none generated.
ReviewCommitsFinalAnswerWitness ==
    /\ pc = "review_done"
    /\ Len(mapping) = 2
    /\ cache = << <<0, <<mapping[1][2], <<"grab the cup">>, <<"take the cup">> >> >>,
                  <<1, <<mapping[2][2]>> >> >>
    /\ stdin = Line(<<"y">>)

\* The argv of a record child, and whether it records a new dataset.
IsRecordCmd(c) == c # None /\ c.val[1] = <<"lerobot-record">>

\* C11: run_record calls create_tag exactly when the record child ended with
\* exit status 0 and the dataset is new, and after the child ended; never
\* for a resumed dataset, a non-zero exit, a missing executable or an
\* interrupted child; a tag call that raises is a warning and leaves the
\* operation completed and the script at the menu.
TagOnlyAfterNewRecording ==
    [][ /\ (tag_call = None /\ tag_call' # None) =>
              /\ pc = "record_child" /\ result = "running"
              /\ result' = "completed"
              /\ locals.resume_flag = <<"false">>
              /\ IsRecordCmd(cmd) /\ cmd' = cmd
              /\ cmd.val[13] = <<"--resume=", "false">>
              /\ tag_call'.val.repo_id = <<"lehungry-robotum/">> \o locals.dataset_name
              /\ cmd.val[10] = <<"--dataset.repo_id=">> \o tag_call'.val.repo_id
        /\ (pc = "record_child" /\ result' = "completed"
               /\ locals.resume_flag = <<"false">>) => tag_call' # None
        /\ (pc = "record_child"
               /\ (result' \in {"failed", "interrupted"}
                     \/ locals.resume_flag = <<"true">>)) =>
              (tag_call' = None /\ pc' = "menu")
        /\ (pc = "record_confirm" /\ result' = "not_found") =>
              (tag_call' = None /\ pc' = "menu")
        /\ tag_call' # None => (IsRecordCmd(cmd') /\ result' = "completed")
        /\ (pc = "record_tag" /\ tag_call'.val.outcome = "raised") =>
              /\ out' = "[TAGGING] Warning: Failed to create tag."
              /\ result' = "completed"
              /\ pc' = "menu"
      ]_vars

\* A new recording completed, its tag call raised: the warning, at the menu.
TagOnlyAfterNewRecordingWitness ==
    /\ pc = "menu"
    /\ result = "completed"
    /\ IsRecordCmd(cmd)
    /\ tag_call # None
    /\ tag_call.val.outcome = "raised"
    /\ tag_call.val.repo_id = <<"lehungry-robotum/", "my_task_test">>
    /\ out = "[TAGGING] Warning: Failed to create tag."

\* The configuration in memory and the two files.
Stored == <<config, configFile, envFile>>

\* The key a role choice stands for, as the claim names the roles.
ChosenKey(l) == IF l = Line(<<"1">>) THEN LeaderKey ELSE FollowerKey

\* Both files hold the dict d.
WrittenBack(d, cf, ef) ==
    /\ cf.exists /\ load_config(cf) = d
    /\ ef.exists
    /\ {EntryOf(ef.content[i]) : i \in 1..Len(ef.content)} = ExpectedEntries(d)
    /\ Len(ef.content) = Cardinality(ExpectedEntries(d))

\* C12: once main_menu has loaded it, the configuration and the two files
\* change only in the step of Find Port in which a role is chosen for the
\* one detected port: that step sets exactly the chosen role's key to the
\* port and writes the whole configuration to both files; the role prompt
\* is reached only from a detection with exactly one removed port; every
\* other step (failed detection, cancel, calibrate, teleoperate, record)
\* leaves the three unchanged.
ConfigChangesOnlyOnRoleAssignment ==
    [][ pc # "start" =>
          /\ Stored' # Stored =>
                /\ pc = "assign_role"
                /\ stdin' \in {Line(<<"1">>), Line(<<"2">>)}
          /\ (pc = "assign_role" /\ stdin' \in {Line(<<"1">>), Line(<<"2">>)}) =>
                /\ locals.found_port # None
                /\ DictGet(config', ChosenKey(stdin')) = locals.found_port
                /\ DictKeys(config') = DictKeys(config) \cup {ChosenKey(stdin')}
                /\ \A k \in DictKeys(config) \ {ChosenKey(stdin')} :
                      DictGet(config', k) = DictGet(config, k)
                /\ WrittenBack(config', configFile', envFile')
                /\ pc' = "menu"
          /\ (pc' = "assign_role" /\ pc # "assign_role") =>
                /\ pc = "find_reconnect"
                /\ LET gone == {p \in locals.initial_ports :
                                  p \notin locals.after_unplug_ports} IN
                   /\ Cardinality(gone) = 1
                   /\ locals'.found_port # None
                   /\ locals'.found_port.val \in gone
          /\ pc' = "assign_role" => locals'.found_port # None
      ]_vars

\* The follower role given to a detected port that the configuration did
\* not hold, and both files rewritten with it.
ConfigChangesOnlyOnRoleAssignmentWitness ==
    /\ pc = "menu"
    /\ stdin = Line(<<"2">>)
    /\ out = "Saved to config.json and .env"
    /\ config = << <<LeaderKey, DevicePath(0)>>, <<FollowerKey, DevicePath(2)>> >>
    /\ WrittenBack(config, configFile, envFile)

====
